---- MODULE Spec2Model ----
(***************************************************************************)
(* Model of the query-string accessors of query.py and of the datetime     *)
(* parser of parsers.py.                                                   *)
(*                                                                         *)
(* A Python str is a sequence of one-character strings.  A Python value is *)
(* a record with a single field that names its type, so that values of     *)
(* different types are comparable and unequal.  The outcome of a call is   *)
(* Return(v) or Raise(ValueError).                                         *)
(***************************************************************************)
EXTENDS Integers, Sequences, FiniteSets, TLC

VARIABLES
    GET,     \* request.GET: the query mapping, parameter name -> raw str
    call,    \* the accessor call made last: its function and arguments
    ret      \* the outcome of that call

vars == <<GET, call, ret>>

----------------------------------------------------------------------------
(* Python values *)

None == [none |-> TRUE]
StrV(s) == [str |-> s]
IntV(n) == [int |-> n]
BoolV(b) == [bool |-> b]
ListV(l) == [list |-> l]
PairV(a, b) == [pair |-> <<a, b>>]
DtV(f, tz) == [dt |-> f, tzinfo |-> tz]

ValueError == [exc |-> "ValueError"]
Return(v) == [kind |-> "return", val |-> v]
Raise(e) == [kind |-> "raise", val |-> e]

\* A caller-supplied default that no conversion can produce.
DefaultObj == [obj |-> "default"]
Defaults == {None, DefaultObj}

----------------------------------------------------------------------------
(* str primitives *)

Digits == <<"0", "1", "2", "3", "4", "5", "6", "7", "8", "9">>
UpperChars == <<"A", "B", "C", "D", "E", "F", "G", "H", "I", "J", "K", "L", "M",
                "N", "O", "P", "Q", "R", "S", "T", "U", "V", "W", "X", "Y", "Z">>
LowerChars == <<"a", "b", "c", "d", "e", "f", "g", "h", "i", "j", "k", "l", "m",
                "n", "o", "p", "q", "r", "s", "t", "u", "v", "w", "x", "y", "z">>

Range(s) == {s[i] : i \in DOMAIN s}

IsDigit(c) == c \in Range(Digits)
DigitVal(c) == (CHOOSE i \in DOMAIN Digits : Digits[i] = c) - 1
IsSpace(c) == c \in {" ", "\t", "\n", "\r"}

LowerChar(c) ==
    IF c \in Range(UpperChars)
    THEN LowerChars[CHOOSE i \in DOMAIN UpperChars : UpperChars[i] = c]
    ELSE c

\* str.lower()
Lower(s) == [i \in DOMAIN s |-> LowerChar(s[i])]

\* str.strip(): drops the leading and the trailing whitespace
Strip(s) ==
    LET keep == {i \in DOMAIN s : ~IsSpace(s[i])}
    IN  IF keep = {} THEN <<>>
        ELSE LET lo == CHOOSE i \in keep : \A j \in keep : i <= j
                 hi == CHOOSE i \in keep : \A j \in keep : j <= i
             IN  SubSeq(s, lo, hi)

\* whether sep occurs in s at position i
OccursAt(s, sep, i) ==
    /\ i >= 1
    /\ i + Len(sep) - 1 <= Len(s)
    /\ SubSeq(s, i, i + Len(sep) - 1) = sep

\* `sep in s`
Contains(s, sep) == \E i \in 1..(Len(s) + 1) : OccursAt(s, sep, i)

\* str.split(sep) for a non-empty sep: scans left to right, cutting at each
\* occurrence of sep that does not overlap the one before
RECURSIVE SplitFrom(_, _, _, _)
SplitFrom(s, sep, start, i) ==
    IF i > Len(s) - Len(sep) + 1
    THEN <<SubSeq(s, start, Len(s))>>
    ELSE IF OccursAt(s, sep, i)
         THEN <<SubSeq(s, start, i - 1)>>
              \o SplitFrom(s, sep, i + Len(sep), i + Len(sep))
         ELSE SplitFrom(s, sep, start, i + 1)

Split(s, sep) == SplitFrom(s, sep, 1, 1)

----------------------------------------------------------------------------
(* int(str) *)

Fail == [ok |-> FALSE]
Ok(v) == [ok |-> TRUE, val |-> v]

\* the digits of an int literal from position i on: digits, with single
\* underscores allowed between two digits; acc is the value so far and prev
\* the character before position i.  Yields the position after the literal
\* and its value, or Fail.
RECURSIVE ScanDigits(_, _, _, _)
ScanDigits(s, i, acc, prev) ==
    IF i <= Len(s) /\ IsDigit(s[i])
    THEN ScanDigits(s, i + 1, acc * 10 + DigitVal(s[i]), s[i])
    ELSE IF i <= Len(s) /\ s[i] = "_"
         THEN IF IsDigit(prev) THEN ScanDigits(s, i + 1, acc, "_") ELSE Fail
         ELSE IF IsDigit(prev) THEN Ok([pos |-> i, val |-> acc]) ELSE Fail

RECURSIVE SkipSpace(_, _)
SkipSpace(s, i) == IF i <= Len(s) /\ IsSpace(s[i]) THEN SkipSpace(s, i + 1) ELSE i

\* int(s) in base 10: leading whitespace, an optional sign, the digits,
\* trailing whitespace, and nothing else; Fail stands for ValueError
IntParse(s) ==
    LET i0 == SkipSpace(s, 1)
        signed == i0 <= Len(s) /\ s[i0] \in {"+", "-"}
        neg == signed /\ s[i0] = "-"
        i1 == IF signed THEN i0 + 1 ELSE i0
        body == ScanDigits(s, i1, 0, "")
    IN  IF ~body.ok THEN Fail
        ELSE IF SkipSpace(s, body.val.pos) <= Len(s) THEN Fail
        ELSE Ok(IF neg THEN 0 - body.val.val ELSE body.val.val)

----------------------------------------------------------------------------
(* request.GET *)

\* Lookup as request.GET.get(name, ""): an absent key reads as the empty str
Lookup_EmptyStr(name) == IF name \in DOMAIN GET THEN StrV(GET[name]) ELSE StrV(<<>>)

\* request.GET.get(name): the raw value, or None when the key is absent
Lookup(name) == IF name \in DOMAIN GET THEN StrV(GET[name]) ELSE None

----------------------------------------------------------------------------
(* query.py accessors: each yields the outcome of the call *)

get_str(name, default) ==
    LET value == Lookup(name)
    IN  IF value = None THEN Return(default)
        ELSE Return(value)

Truthy == {<<"t", "r", "u", "e">>, <<"t">>, <<"y", "e", "s">>, <<"y">>, <<"1">>}
Falsy == {<<"f", "a", "l", "s", "e">>, <<"f">>, <<"n", "o">>, <<"n">>, <<"0">>}

\* get_boolean without lower(): the words match in lower case only
get_boolean_CaseSensitive(name, default) ==
    LET value == Lookup(name)
    IN  IF value = None THEN Return(default)
        ELSE IF value.str \in Truthy THEN Return(BoolV(TRUE))
        ELSE IF value.str \in Falsy THEN Return(BoolV(FALSE))
        ELSE Return(default)

get_boolean(name, default) ==
    LET value == Lookup(name)
    IN  IF value = None THEN Return(default)
        ELSE IF Lower(value.str) \in Truthy THEN Return(BoolV(TRUE))
        ELSE IF Lower(value.str) \in Falsy THEN Return(BoolV(FALSE))
        ELSE Return(default)

\* get_int whose except clause returns the default whatever the flag
get_int_Swallow(name, default, raise_on_value_error) ==
    LET value == Lookup(name)
    IN  IF value = None THEN Return(default)
        ELSE LET r == IntParse(value.str)
             IN  IF r.ok THEN Return(IntV(r.val)) ELSE Return(default)

get_int(name, default, raise_on_value_error) ==
    LET value == Lookup(name)
    IN  IF value = None THEN Return(default)
        ELSE LET r == IntParse(value.str)
             IN  IF r.ok THEN Return(IntV(r.val))
                 ELSE IF raise_on_value_error THEN Raise(ValueError)
                 ELSE Return(default)

\* the element converters of get_list: type(item), Fail standing for ValueError.
\* str(item) is item itself, int(item) is IntParse and bool(item) is whether
\* the str is non-empty.
Convert(type, item) ==
    CASE type = "str" -> Ok(StrV(item))
      [] type = "int" -> LET r == IntParse(item)
                         IN  IF r.ok THEN Ok(IntV(r.val)) ELSE Fail
      [] type = "bool" -> Ok(BoolV(item # <<>>))

\* the for loop of get_list with break in place of continue: a piece that
\* fails conversion ends the loop
RECURSIVE ListLoop_Break(_, _, _, _, _)
ListLoop_Break(items, i, type, raise_on_value_error, result_list) ==
    IF i > Len(items) THEN Return(ListV(result_list))
    ELSE LET item == Strip(items[i])
         IN  IF item = <<>>
             THEN ListLoop_Break(items, i + 1, type, raise_on_value_error, result_list)
             ELSE LET r == Convert(type, item)
                  IN  IF r.ok
                      THEN ListLoop_Break(items, i + 1, type, raise_on_value_error,
                                          Append(result_list, r.val))
                      ELSE IF raise_on_value_error THEN Raise(ValueError)
                      ELSE Return(ListV(result_list))

\* the for loop of get_list over items[i..], result_list being the list so far
RECURSIVE ListLoop(_, _, _, _, _)
ListLoop(items, i, type, raise_on_value_error, result_list) ==
    IF i > Len(items) THEN Return(ListV(result_list))
    ELSE LET item == Strip(items[i])
         IN  IF item = <<>>
             THEN ListLoop(items, i + 1, type, raise_on_value_error, result_list)
             ELSE LET r == Convert(type, item)
                  IN  IF r.ok
                      THEN ListLoop(items, i + 1, type, raise_on_value_error,
                                    Append(result_list, r.val))
                      ELSE IF raise_on_value_error THEN Raise(ValueError)
                      ELSE ListLoop(items, i + 1, type, raise_on_value_error,
                                    result_list)

get_list(name, default, type, delim, raise_on_value_error) ==
    LET value == Lookup(name)
    IN  IF value = None THEN Return(default)
        ELSE ListLoop(Split(value.str, delim), 1, type, raise_on_value_error, <<>>)

----------------------------------------------------------------------------
(* datetime.datetime.strptime *)

\* The alternatives of a directive's pattern, in the order the pattern tries
\* them: len characters, digits with a value in lo..hi, or (pad) a space and
\* one such digit.
Alt(len, lo, hi, pad) == [len |-> len, lo |-> lo, hi |-> hi, pad |-> pad]

DirectiveAlts(d) ==
    CASE d = "Y" -> <<Alt(4, 0, 9999, FALSE)>>
      [] d = "m" -> <<Alt(2, 1, 12, FALSE), Alt(1, 1, 9, FALSE)>>
      [] d = "d" -> <<Alt(2, 1, 31, FALSE), Alt(1, 1, 9, FALSE), Alt(2, 1, 9, TRUE)>>
      [] d = "H" -> <<Alt(2, 0, 23, FALSE), Alt(1, 0, 9, FALSE)>>
      [] d = "M" -> <<Alt(2, 0, 59, FALSE), Alt(1, 0, 9, FALSE)>>
      [] d = "S" -> <<Alt(2, 0, 61, FALSE), Alt(1, 0, 9, FALSE)>>
      [] OTHER -> <<>>

RECURSIVE NumVal(_)
NumVal(s) ==
    IF s = <<>> THEN 0
    ELSE NumVal(SubSeq(s, 1, Len(s) - 1)) * 10 + DigitVal(s[Len(s)])

\* whether alternative a matches value at pos, and the number it reads
AltMatch(a, value, pos) ==
    IF pos + a.len - 1 > Len(value) THEN Fail
    ELSE LET text == SubSeq(value, pos, pos + a.len - 1)
             digits == IF a.pad THEN Tail(text) ELSE text
         IN  IF /\ a.pad => text[1] = " "
                /\ \A i \in DOMAIN digits : IsDigit(digits[i])
                /\ NumVal(digits) \in a.lo..a.hi
             THEN Ok(NumVal(digits))
             ELSE Fail

\* the length of the whitespace run of s that starts at position i
SpaceRun(s, i) == SkipSpace(s, i) - i

\* The match of format[fi..] against value[pos..], as the compiled pattern
\* matches: a directive tries its alternatives in order, a whitespace run of
\* the format matches one or more whitespace characters (the longest first),
\* any other character matches itself whatever its case; a later failure
\* backtracks into the choice before.  Yields the position after the match
\* and the fields read, or Fail.
RECURSIVE MatchFrom(_, _, _, _, _)
RECURSIVE TryAlts(_, _, _, _, _, _, _)
RECURSIVE TrySpaces(_, _, _, _, _, _)

TryAlts(value, pos, format, fi, fields, d, k) ==
    IF k > Len(DirectiveAlts(d)) THEN Fail
    ELSE LET a == DirectiveAlts(d)[k]
             m == AltMatch(a, value, pos)
             rest == MatchFrom(value, pos + a.len, format, fi + 2,
                               [fields EXCEPT ![d] = m.val])
         IN  IF m.ok /\ rest.ok THEN rest
             ELSE TryAlts(value, pos, format, fi, fields, d, k + 1)

TrySpaces(value, pos, format, fi, fields, n) ==
    IF n < 1 THEN Fail
    ELSE LET rest == MatchFrom(value, pos + n, format, fi, fields)
         IN  IF rest.ok THEN rest
             ELSE TrySpaces(value, pos, format, fi, fields, n - 1)

MatchFrom(value, pos, format, fi, fields) ==
    IF fi > Len(format) THEN Ok([pos |-> pos, fields |-> fields])
    ELSE IF format[fi] = "%"
         THEN IF fi + 1 > Len(format) THEN Fail
              ELSE TryAlts(value, pos, format, fi, fields, format[fi + 1], 1)
    ELSE IF IsSpace(format[fi])
         THEN TrySpaces(value, pos, format, SkipSpace(format, fi), fields,
                        SpaceRun(value, pos))
    ELSE IF pos <= Len(value) /\ LowerChar(value[pos]) = LowerChar(format[fi])
         THEN MatchFrom(value, pos + 1, format, fi + 1, fields)
    ELSE Fail

IsLeap(year) == year % 4 = 0 /\ (year % 100 # 0 \/ year % 400 = 0)

DaysInMonth(year, month) ==
    IF month = 2 THEN (IF IsLeap(year) THEN 29 ELSE 28)
    ELSE IF month \in {4, 6, 9, 11} THEN 30
    ELSE 31

\* the fields of a format that names none of them
FieldDefaults == [Y |-> 1900, m |-> 1, d |-> 1, H |-> 0, M |-> 0, S |-> 0]

\* datetime.datetime.strptime(value, format): the naive timestamp's fields,
\* or Fail for ValueError: the value does not match the format, data remains
\* after the match, or the fields read are no date and time of day
Strptime(value, format) ==
    LET m == MatchFrom(value, 1, format, 1, FieldDefaults)
    IN  IF ~m.ok THEN Fail
        ELSE IF m.val.pos <= Len(value) THEN Fail
        ELSE LET f == m.val.fields
             IN  IF \/ f.Y < 1
                    \/ f.d > DaysInMonth(f.Y, f.m)
                    \/ f.S > 59
                 THEN Fail
                 ELSE Ok([year |-> f.Y, month |-> f.m, day |-> f.d,
                          hour |-> f.H, minute |-> f.M, second |-> f.S])

----------------------------------------------------------------------------
(* parsers.py *)

\* datetime.replace(hour=..., minute=..., second=...)
Replace(parsed, hour, minute, second) ==
    [parsed EXCEPT !.hour = hour, !.minute = minute, !.second = second]

\* timezone.make_aware(parsed): the same wall-clock fields, with the current
\* timezone attached
make_aware(parsed) == DtV(parsed, "local")

\* parser_datetime whose start alignment leaves the seconds as parsed
parser_datetime_KeepSeconds(value, format, align, aware) ==
    LET p == Strptime(value, format)
    IN  IF ~p.ok THEN Raise(ValueError)
        ELSE LET parsed == IF align = "start" THEN Replace(p.val, 0, 0, p.val.second)
                           ELSE IF align = "end" THEN Replace(p.val, 23, 59, 59)
                           ELSE p.val
             IN  IF aware THEN Return(make_aware(parsed))
                 ELSE Return(DtV(parsed, "naive"))

\* align is "None" (Python's None), "start" or "end"
parser_datetime(value, format, align, aware) ==
    LET p == Strptime(value, format)
    IN  IF ~p.ok THEN Raise(ValueError)
        ELSE LET parsed == IF align = "start" THEN Replace(p.val, 0, 0, 0)
                           ELSE IF align = "end" THEN Replace(p.val, 23, 59, 59)
                           ELSE p.val
             IN  IF aware THEN Return(make_aware(parsed))
                 ELSE Return(DtV(parsed, "naive"))

----------------------------------------------------------------------------
(* query.py: the datetime accessors *)

\* get_datetime that does not pass align on to parser_datetime
get_datetime_NoAlign(name, default, format, align, aware, raise_on_value_error) ==
    LET value == Lookup(name)
    IN  IF value = None THEN Return(default)
        ELSE LET r == parser_datetime(value.str, format, "None", aware)
             IN  IF r.kind = "return" THEN r
                 ELSE IF raise_on_value_error THEN r
                 ELSE Return(default)

get_datetime(name, default, format, align, aware, raise_on_value_error) ==
    LET value == Lookup(name)
    IN  IF value = None THEN Return(default)
        ELSE LET r == parser_datetime(value.str, format, align, aware)
             IN  IF r.kind = "return" THEN r
                 ELSE IF raise_on_value_error THEN r
                 ELSE Return(default)

\* `if align`: None and the empty str are false
Truth(align) == align \notin {"None", ""}

\* `start_value, end_value = value.split(delim)`: ValueError unless the
\* split gives exactly two parts
Unpack2(parts) == IF Len(parts) = 2 THEN Ok(parts) ELSE Fail

\* the two try blocks, the second returning the parsed start with the default
RangePair_Partial(start, end, default, raise_on_value_error) ==
    IF start.kind = "raise"
    THEN IF raise_on_value_error THEN start
         ELSE Return(PairV(default, default))
    ELSE IF end.kind = "raise"
    THEN IF raise_on_value_error THEN end
         ELSE Return(PairV(start.val, default))
    ELSE Return(PairV(start.val, end.val))

\* the two try blocks and the final return, start and end being the outcomes
\* of parsing the two halves
RangePair(start, end, default, raise_on_value_error) ==
    IF start.kind = "raise"
    THEN IF raise_on_value_error THEN start
         ELSE Return(PairV(default, default))
    ELSE IF end.kind = "raise"
    THEN IF raise_on_value_error THEN end
         ELSE Return(PairV(default, default))
    ELSE Return(PairV(start.val, end.val))

\* _align1 and _align2 are the two values the code computes into _align and
\* never reads: both halves are parsed with the caller's align
get_datetime_range(name, default, format, delim, align, aware, raise_on_value_error) ==
    LET value == Lookup(name)
    IN  IF value = None THEN Return(default)
        ELSE IF ~Contains(value.str, delim)
             THEN IF raise_on_value_error THEN Raise(ValueError)
                  ELSE Return(PairV(default, default))
        ELSE LET halves == Unpack2(Split(value.str, delim))
             IN  IF ~halves.ok THEN Raise(ValueError)
                 ELSE LET _align1 == IF Truth(align) THEN "start" ELSE "None"
                          start == parser_datetime(halves.val[1], format, align, aware)
                          _align2 == IF Truth(align) THEN "end" ELSE "None"
                          end == parser_datetime(halves.val[2], format, align, aware)
                      IN  RangePair(start, end, default, raise_on_value_error)

----------------------------------------------------------------------------
(* The inputs: query mappings, parameter names and options.  The bounds:   *)

\* the longest raw value of the integer inputs
MaxIntLen == 3
\* the most delimiter-separated pieces of a list input
MaxPieces == 4
\* the most delimiter-separated parts of a datetime-range input
MaxParts == 3

\* the parameter names asked for; only "q" is ever present in a mapping
Names == {"q", "r"}

NoParams == [n \in {} |-> <<>>]

\* the mappings that hold no parameter, or "q" with a raw value of V
Requests(V) == {NoParams} \cup {("q" :> v) : v \in V}

RECURSIVE Join(_, _)
Join(pieces, sep) ==
    IF Len(pieces) = 0 THEN <<>>
    ELSE IF Len(pieces) = 1 THEN pieces[1]
    ELSE pieces[1] \o sep \o Join(Tail(pieces), sep)

StringsUpTo(chars, n) == UNION {[1..k -> chars] : k \in 0..n}

UpperChar(c) ==
    IF c \in Range(LowerChars)
    THEN UpperChars[CHOOSE i \in DOMAIN LowerChars : LowerChars[i] = c]
    ELSE c

\* every spelling of word w in upper and lower case
RECURSIVE CaseVariants(_)
CaseVariants(w) ==
    IF w = <<>> THEN {<<>>}
    ELSE {<<c>> \o t : c \in {Head(w), UpperChar(Head(w))}, t \in CaseVariants(Tail(w))}

BoolOthers ==
    {
     <<>>,
     <<" ", "t", "r", "u", "e">>,
     <<"t", "r", "u", "e", " ">>,
     <<"t", " ">>,
     <<"2">>,
     <<"1", "0">>,
     <<"o", "n">>,
     <<"o", "f", "f">>,
     <<"t", "r", "u">>,
     <<"y", "e", "s", "s">>,
     <<"n", "o", "p", "e">>,
     <<"t", "r", "u", "e", "f", "a", "l", "s", "e">>,
     <<"y", "1">>,
     <<"-", "1">>
    }

BoolValues == UNION {CaseVariants(w) : w \in Truthy \cup Falsy} \cup BoolOthers

IntChars == {"-", "+", "4", "2", "0", ".", " ", "_"}
IntValues == StringsUpTo(IntChars, MaxIntLen)

ListPieces ==
    {
     <<" ", "1">>,
     <<" ", "2">>,
     <<>>,
     <<"3", " ">>,
     <<"x", ";", "7">>
    }

Comma == <<",">>
Semicolon == <<";">>
Delims == {Comma, Semicolon}
ElementTypes == {"str", "int", "bool"}

ListValues ==
    {Join(p, Comma) : p \in UNION {[1..k -> ListPieces] : k \in 0..MaxPieces}}

DefaultFormat == <<"%", "Y", "-", "%", "m", "-", "%", "d", " ", "%", "H", ":", "%", "M", ":", "%", "S">>
DateFormat == <<"%", "Y", "-", "%", "m", "-", "%", "d">>
Formats == {DefaultFormat, DateFormat}
Aligns == {"None", "start", "end"}

Pad2(n) == <<Digits[((n \div 10) % 10) + 1], Digits[(n % 10) + 1]>>
Pad4(n) == Pad2(n \div 100) \o Pad2(n % 100)
DateStr(d) == Pad4(d[1]) \o <<"-">> \o Pad2(d[2]) \o <<"-">> \o Pad2(d[3])
TimeStr(t) == Pad2(t[1]) \o <<":">> \o Pad2(t[2]) \o <<":">> \o Pad2(t[3])

Dates == {<<2024, 1, 5>>, <<2024, 2, 29>>, <<2023, 2, 29>>, <<2024, 12, 31>>,
          <<2024, 13, 1>>, <<0, 1, 1>>}
Times == {<<0, 0, 0>>, <<13, 45, 22>>, <<23, 59, 59>>, <<24, 0, 0>>,
          <<13, 45, 60>>, <<13, 60, 0>>}

DatetimeOthers ==
    {
     <<>>,
     <<"x">>,
     <<"2", "0", "2", "4", "-", "1", "-", "5", " ", "3", ":", "4", ":", "5">>,
     <<"2", "0", "2", "4", "-", "0", "1", "-", "0", "5", "T", "1", "3", ":", "4", "5", ":", "2", "2">>,
     <<"2", "0", "2", "4", "-", "0", "1", "-", "0", "5", " ", " ", "1", "3", ":", "4", "5", ":", "2", "2">>,
     <<"2", "0", "2", "4", "-", "0", "1", "-", "0", "5", "\t", "1", "3", ":", "4", "5", ":", "2", "2">>,
     <<"2", "0", "2", "4", "-", "0", "1", "-", "0", "5", " ", "1", "3", ":", "4", "5", ":", "2", "2", " ">>,
     <<" ", "2", "0", "2", "4", "-", "0", "1", "-", "0", "5", " ", "1", "3", ":", "4", "5", ":", "2", "2">>,
     <<"2", "0", "2", "4", "-", "0", "1", "-", " ", "5", " ", "1", "3", ":", "4", "5", ":", "2", "2">>,
     <<"2", "0", "2", "4", "-", " ", "1", "-", "0", "5", " ", "1", "3", ":", "4", "5", ":", "2", "2">>,
     <<"2", "4", "-", "0", "1", "-", "0", "5", " ", "1", "3", ":", "4", "5", ":", "2", "2">>,
     <<"2", "0", "2", "4", "-", "0", "1", "-", "0", "5", " ", "1", "3", ":", "4", "5">>,
     <<"2", "0", "2", "4", "-", "0", "1", "-", "0", "5", " ", "1", "3", ":", "4", "5", ":", "2", "2", ".", "5">>,
     <<"2", "0", "2", "4", "-", "0", "1", "-", "0", "5", " ">>,
     <<"2", "0", "2", "4", "-", "1", "-", "0", "5">>,
     <<"2", "0", "2", "4", "-", "0", "1", "-", " ", "5">>
    }

DatetimeValues ==
    {DateStr(d) \o <<" ">> \o TimeStr(t) : d \in Dates, t \in Times}
        \cup {DateStr(d) : d \in Dates} \cup DatetimeOthers

RangeParts ==
    {
     <<"2", "0", "2", "4", "-", "0", "1", "-", "0", "1", " ", "0", "0", ":", "0", "0", ":", "0", "0">>,
     <<"2", "0", "2", "4", "-", "0", "1", "-", "3", "1", " ", "2", "3", ":", "5", "9", ":", "5", "9">>,
     <<"2", "0", "2", "4", "-", "0", "1", "-", "0", "5">>,
     <<"2", "0", "2", "4", "-", "1", "3", "-", "0", "1">>
    }

RangeValues ==
    {Join(p, d) : p \in UNION {[1..k -> RangeParts] : k \in 1..MaxParts}, d \in Delims}

MixedValues ==
    {
     <<>>,
     <<"y", "e", "s">>,
     <<"-", "4", "2">>,
     <<"4", ".", "2">>,
     <<" ", "1", ",", " ", "2", ",", ",", "3", " ">>,
     <<"2", "0", "2", "4", "-", "0", "1", "-", "0", "5", " ", "1", "3", ":", "4", "5", ":", "2", "2">>,
     <<"2", "0", "2", "4", "-", "0", "1", "-", "0", "1", " ", "0", "0", ":", "0", "0", ":", "0", "0", ",", "2", "0", "2", "4", "-", "0", "1", "-", "3", "1", " ", "2", "3", ":", "5", "9", ":", "5", "9">>
    }

----------------------------------------------------------------------------
(* The calls.  A state holds the query mapping, one call with its          *)
(* arguments, and the call's outcome once it has run.  The functions keep  *)
(* no state and never change the mapping, so a behaviour is one call; the  *)
(* initial states range over the mappings and the arguments.               *)

NoRet == [kind |-> "none"]

StrCalls == [fn : {"get_str"}, name : Names, default : Defaults]
BooleanCalls == [fn : {"get_boolean"}, name : Names, default : Defaults]
IntCalls ==
    [fn : {"get_int"}, name : Names, default : Defaults,
     raise_on_value_error : BOOLEAN]
ListCalls ==
    [fn : {"get_list"}, name : Names, default : Defaults, type : ElementTypes,
     delim : Delims, raise_on_value_error : BOOLEAN]
ParserCalls(V) ==
    [fn : {"parser_datetime"}, value : V, format : Formats, align : Aligns,
     aware : BOOLEAN]
DatetimeCalls ==
    [fn : {"get_datetime"}, name : Names, default : Defaults, format : Formats,
     align : Aligns, aware : BOOLEAN, raise_on_value_error : BOOLEAN]
RangeCalls ==
    [fn : {"get_datetime_range"}, name : Names, default : Defaults,
     format : Formats, delim : Delims, align : Aligns, aware : BOOLEAN,
     raise_on_value_error : BOOLEAN]

\* a call of C on a query mapping over the raw values V
InitOn(V, C) == GET \in Requests(V) /\ call \in C /\ ret = NoRet

\* a direct call of parser_datetime on a raw value of V
InitParser(V) == GET = NoParams /\ call \in ParserCalls(V) /\ ret = NoRet

Pending(fn) == call.fn = fn /\ ret = NoRet

GetStr ==
    /\ Pending("get_str")
    /\ ret' = get_str(call.name, call.default)
    /\ UNCHANGED <<GET, call>>

GetBoolean ==
    /\ Pending("get_boolean")
    /\ ret' = get_boolean(call.name, call.default)
    /\ UNCHANGED <<GET, call>>

GetInt ==
    /\ Pending("get_int")
    /\ ret' = get_int(call.name, call.default, call.raise_on_value_error)
    /\ UNCHANGED <<GET, call>>

GetList ==
    /\ Pending("get_list")
    /\ ret' = get_list(call.name, call.default, call.type, call.delim,
                       call.raise_on_value_error)
    /\ UNCHANGED <<GET, call>>

ParserDatetime ==
    /\ Pending("parser_datetime")
    /\ ret' = parser_datetime(call.value, call.format, call.align, call.aware)
    /\ UNCHANGED <<GET, call>>

GetDatetime ==
    /\ Pending("get_datetime")
    /\ ret' = get_datetime(call.name, call.default, call.format, call.align,
                           call.aware, call.raise_on_value_error)
    /\ UNCHANGED <<GET, call>>

GetDatetimeRange ==
    /\ Pending("get_datetime_range")
    /\ ret' = get_datetime_range(call.name, call.default, call.format,
                                 call.delim, call.align, call.aware,
                                 call.raise_on_value_error)
    /\ UNCHANGED <<GET, call>>

\* every function, on a query mapping of one value of each kind
Init ==
    \/ InitOn(MixedValues, StrCalls \cup BooleanCalls \cup IntCalls \cup ListCalls
                             \cup DatetimeCalls \cup RangeCalls)
    \/ InitParser(MixedValues)
Next ==
    \/ GetStr
    \/ GetBoolean
    \/ GetInt
    \/ GetList
    \/ ParserDatetime
    \/ GetDatetime
    \/ GetDatetimeRange
Spec == Init /\ [][Next]_vars

\* each function on the raw values of its own kind
InitBoolean == InitOn(BoolValues, BooleanCalls)
SpecBoolean == InitBoolean /\ [][GetBoolean]_vars

InitInt == InitOn(IntValues, IntCalls)
SpecInt == InitInt /\ [][GetInt]_vars

InitList == InitOn(ListValues, ListCalls)
SpecList == InitList /\ [][GetList]_vars

InitDatetime == InitOn(DatetimeValues, DatetimeCalls) \/ InitParser(DatetimeValues)
NextDatetime == ParserDatetime \/ GetDatetime
SpecDatetime == InitDatetime /\ [][NextDatetime]_vars

InitRange == InitOn(RangeValues, RangeCalls)
SpecRange == InitRange /\ [][GetDatetimeRange]_vars

----------------------------------------------------------------------------
(* Properties.  Each is stated over the call made and its outcome.         *)

Called(fn) == call.fn = fn /\ ret # NoRet
Present == call.name \in DOMAIN GET
Raw == GET[call.name]
IsTimestamp(v) == "dt" \in DOMAIN v
IsPair(v) == "pair" \in DOMAIN v
TimeOfDay(v) == <<v.dt.hour, v.dt.minute, v.dt.second>>

\* C1: an accessor asked for a parameter name that the query mapping does not
\* hold returns exactly the supplied default (get_datetime_range the default
\* itself, not a pair) and does not raise, whatever the other options.
C1_AbsentReturnsDefault ==
    (ret # NoRet /\ call.fn # "parser_datetime" /\ ~Present)
        => ret = Return(call.default)

C1_Witness ==
    /\ Called("get_datetime_range")
    /\ GET # NoParams
    /\ ~Present
    /\ call.raise_on_value_error
    /\ call.default = DefaultObj
    /\ ret = Return(DefaultObj)

\* C2: get_datetime_range with alignment requested, on a value whose two
\* halves both parse, returns a first timestamp at 00:00:00 and a second at
\* 23:59:59, whichever alignment the caller passed.
C2_RangeAlignsStartAndEnd ==
    (/\ Called("get_datetime_range")
     /\ Truth(call.align)
     /\ ret.kind = "return"
     /\ IsPair(ret.val)
     /\ IsTimestamp(ret.val.pair[1])
     /\ IsTimestamp(ret.val.pair[2]))
        => /\ TimeOfDay(ret.val.pair[1]) = <<0, 0, 0>>
           /\ TimeOfDay(ret.val.pair[2]) = <<23, 59, 59>>

\* whether raw splits on delim into exactly two halves that both parse
TwoHalvesParse(raw, delim, format) ==
    LET parts == Split(raw, delim)
    IN  /\ Len(parts) = 2
        /\ Strptime(parts[1], format).ok
        /\ Strptime(parts[2], format).ok

\* C3: with raise_on_value_error false, get_datetime_range on a present value
\* never raises, and returns (default, default) whenever the value does not
\* split on the delimiter into exactly two halves that both parse.
C3_RangeSwallowsEveryFailure ==
    (Called("get_datetime_range") /\ Present /\ ~call.raise_on_value_error)
        => /\ ret.kind = "return"
           /\ ~TwoHalvesParse(Raw, call.delim, call.format)
                  => ret = Return(PairV(call.default, call.default))

\* C4: a call of get_datetime_range on a present value that returns gives
\* either (default, default) or two timestamps, those of the two halves of
\* the value; never one timestamp and one default.
C4_RangeNeverPartial ==
    (Called("get_datetime_range") /\ Present /\ ret.kind = "return")
        => \/ ret.val = PairV(call.default, call.default)
           \/ /\ IsPair(ret.val)
              /\ IsTimestamp(ret.val.pair[1])
              /\ IsTimestamp(ret.val.pair[2])
              /\ TwoHalvesParse(Raw, call.delim, call.format)
              /\ LET parts == Split(Raw, call.delim)
                     date(f) == <<f.year, f.month, f.day>>
                 IN  /\ date(ret.val.pair[1].dt)
                            = date(Strptime(parts[1], call.format).val)
                     /\ date(ret.val.pair[2].dt)
                            = date(Strptime(parts[2], call.format).val)

\* the first half parses, the second does not
C4_Witness ==
    /\ Called("get_datetime_range")
    /\ Present
    /\ ~call.raise_on_value_error
    /\ call.default = DefaultObj
    /\ LET parts == Split(Raw, call.delim)
       IN  /\ Len(parts) = 2
           /\ Strptime(parts[1], call.format).ok
           /\ ~Strptime(parts[2], call.format).ok
    /\ ret = Return(PairV(DefaultObj, DefaultObj))

\* whether raw spells one of words, each letter in either case
Spells(raw, words) ==
    \E w \in words :
        /\ Len(raw) = Len(w)
        /\ \A i \in DOMAIN w : raw[i] \in {w[i], UpperChar(w[i])}

TrueWords == {<<"t", "r", "u", "e">>, <<"t">>, <<"y", "e", "s">>, <<"y">>, <<"1">>}
FalseWords == {<<"f", "a", "l", "s", "e">>, <<"f">>, <<"n", "o">>, <<"n">>, <<"0">>}

\* C5: get_boolean on a present value returns True when the value is one of
\* true, t, yes, y, 1 in any case, False when it is one of false, f, no, n, 0
\* in any case, and the supplied default for every other value, the empty
\* string and values with surrounding whitespace included.
C5_BooleanByWord ==
    (Called("get_boolean") /\ Present)
        => IF Spells(Raw, TrueWords) THEN ret = Return(BoolV(TRUE))
           ELSE IF Spells(Raw, FalseWords) THEN ret = Return(BoolV(FALSE))
           ELSE ret = Return(call.default)

C5_Witness ==
    /\ Called("get_boolean")
    /\ Present
    /\ Raw = <<"Y", "e", "S">>
    /\ ret = Return(BoolV(TRUE))

\* the pieces of raw on delim, trimmed, the empty ones dropped
TrimmedPieces(raw, delim) ==
    LET pieces == Split(raw, delim)
        trimmed == [i \in DOMAIN pieces |-> Strip(pieces[i])]
        NonEmpty(p) == p # <<>>
    IN  SelectSeq(trimmed, NonEmpty)

\* the conversions of those pieces, in order
Conversions(raw, delim, type) ==
    LET kept == TrimmedPieces(raw, delim)
    IN  [i \in DOMAIN kept |-> Convert(type, kept[i])]

SomePieceFails(raw, delim, type) ==
    \E i \in DOMAIN Conversions(raw, delim, type) :
        ~Conversions(raw, delim, type)[i].ok

\* the converted pieces, those that fail conversion left out
ConvertedPieces(raw, delim, type) ==
    LET IsOk(r) == r.ok
        good == SelectSeq(Conversions(raw, delim, type), IsOk)
    IN  [i \in DOMAIN good |-> good[i].val]

C7_ListDefaultOnBadPiece ==
    (/\ Called("get_list")
     /\ Present
     /\ ~call.raise_on_value_error
     /\ SomePieceFails(Raw, call.delim, call.type))
        => ret = Return(call.default)

\* an int literal: whitespace around an optional sign and digits, single
\* underscores allowed between digits
IntLiteralBody(raw) ==
    LET t == Strip(raw)
    IN  IF t # <<>> /\ t[1] \in {"+", "-"} THEN Tail(t) ELSE t

IsIntLiteral(raw) ==
    LET body == IntLiteralBody(raw)
    IN  /\ body # <<>>
        /\ \A i \in DOMAIN body : IsDigit(body[i]) \/ body[i] = "_"
        /\ IsDigit(body[1])
        /\ IsDigit(body[Len(body)])
        /\ \A i \in 1..(Len(body) - 1) : ~(body[i] = "_" /\ body[i + 1] = "_")

\* the integer an int literal denotes
Denotes(raw) ==
    LET t == Strip(raw)
        magnitude == NumVal(SelectSeq(IntLiteralBody(raw), IsDigit))
    IN  IF t[1] = "-" THEN 0 - magnitude ELSE magnitude

\* C8: get_int on a present value that is an integer literal returns the
\* integer it denotes ("-42" gives -42); on any other value ("4.2") it
\* returns the supplied default when raise_on_value_error is false and raises
\* when it is true.
C8_IntOrDefaultOrRaise ==
    (Called("get_int") /\ Present)
        => /\ IF IsIntLiteral(Raw) THEN ret = Return(IntV(Denotes(Raw)))
              ELSE IF call.raise_on_value_error THEN ret = Raise(ValueError)
              ELSE ret = Return(call.default)
           /\ Raw = <<"-", "4", "2">> => ret = Return(IntV(0 - 42))
           /\ Raw = <<"4", ".", "2">> => ret # Return(IntV(4)) /\ ret # Return(IntV(42))

C8_Witness ==
    /\ Called("get_int")
    /\ Present
    /\ Raw = <<"4", ".", "2">>
    /\ call.raise_on_value_error
    /\ ret = Raise(ValueError)

\* A format read as a sequence of items: a directive, a run of whitespace,
\* or a literal character.
RECURSIVE FormatItems(_, _)
FormatItems(format, i) ==
    IF i > Len(format) THEN <<>>
    ELSE IF format[i] = "%"
         THEN <<[dir |-> format[i + 1]]>> \o FormatItems(format, i + 2)
    ELSE IF IsSpace(format[i])
         THEN <<[ws |-> TRUE]>> \o FormatItems(format, SkipSpace(format, i))
    ELSE <<[lit |-> format[i]]>> \o FormatItems(format, i + 1)

IsDirective(item) == "dir" \in DOMAIN item

\* the numbers written in s, one for each maximal run of digits
RECURSIVE SkipDigits(_, _)
SkipDigits(s, i) == IF i <= Len(s) /\ IsDigit(s[i]) THEN SkipDigits(s, i + 1) ELSE i

RECURSIVE Numbers(_, _)
Numbers(s, i) ==
    IF i > Len(s) THEN <<>>
    ELSE IF IsDigit(s[i])
         THEN <<NumVal(SubSeq(s, i, SkipDigits(s, i) - 1))>>
              \o Numbers(s, SkipDigits(s, i))
    ELSE Numbers(s, i + 1)

\* the ways an item is written: a year as four digits; another field as two
\* digits or, below ten, as one digit (the day also as a space and a digit);
\* whitespace as one or two whitespace characters; a literal as itself
Written(item, n) ==
    IF IsDirective(item)
    THEN IF item.dir = "Y" THEN {Pad4(n)}
         ELSE {Pad2(n)}
              \cup (IF n < 10 THEN {<<Digits[n + 1]>>} ELSE {})
              \cup (IF n < 10 /\ item.dir = "d" THEN {<<" ", Digits[n + 1]>>} ELSE {})
    ELSE IF "ws" \in DOMAIN item
         THEN {w \in StringsUpTo({" ", "\t"}, 2) : w # <<>>}
    ELSE {<<item.lit>>}

\* whether value[pos..] is items[k..] written out with the numbers nums[d..]
RECURSIVE WrittenFrom(_, _, _, _, _, _)
WrittenFrom(items, k, nums, d, value, pos) ==
    IF k > Len(items) THEN pos = Len(value) + 1
    ELSE \E t \in Written(items[k], IF IsDirective(items[k]) THEN nums[d] ELSE 0) :
            /\ pos + Len(t) - 1 <= Len(value)
            /\ SubSeq(value, pos, pos + Len(t) - 1) = t
            /\ WrittenFrom(items, k + 1, nums,
                           IF IsDirective(items[k]) THEN d + 1 ELSE d,
                           value, pos + Len(t))

MonthDays(leap) == <<31, IF leap THEN 29 ELSE 28, 31, 30, 31, 30, 31, 31, 30, 31, 30, 31>>

\* the fields a value gives for a format: the numbers of the value, by the
\* position of each directive in the format; 0 for a time field not named
FieldsOf(value, format) ==
    LET dirs == SelectSeq(FormatItems(format, 1), IsDirective)
        nums == Numbers(value, 1)
        At(d, dflt) == IF \E i \in DOMAIN dirs : dirs[i].dir = d
                       THEN nums[CHOOSE i \in DOMAIN dirs : dirs[i].dir = d]
                       ELSE dflt
    IN  [year |-> At("Y", 1900), month |-> At("m", 1), day |-> At("d", 1),
         hour |-> At("H", 0), minute |-> At("M", 0), second |-> At("S", 0)]

\* whether value is a date and time written in the format
MatchesFormat(value, format) ==
    LET items == FormatItems(format, 1)
        nums == Numbers(value, 1)
        f == FieldsOf(value, format)
    IN  /\ Len(nums) = Len(SelectSeq(items, IsDirective))
        /\ f.year \in 1..9999
        /\ f.month \in 1..12
        /\ f.day >= 1
        /\ f.day <= MonthDays(f.year % 4 = 0
                              /\ (f.year % 100 # 0 \/ f.year % 400 = 0))[f.month]
        /\ f.hour \in 0..23
        /\ f.minute \in 0..59
        /\ f.second \in 0..59
        /\ WrittenFrom(items, 1, nums, 1, value, 1)

\* C9: parser_datetime on a value that matches the format returns a timestamp
\* with the year, month and day of the value, at 00:00:00 when align is start,
\* at 23:59:59 when align is end, and at the value's time of day otherwise;
\* on a value that does not match the format it raises.
C9_ParserAlignsTimeOfDay ==
    Called("parser_datetime")
        => IF MatchesFormat(call.value, call.format)
           THEN /\ ret.kind = "return"
                /\ IsTimestamp(ret.val)
                /\ LET f == FieldsOf(call.value, call.format)
                   IN  ret.val.dt =
                         [year |-> f.year, month |-> f.month, day |-> f.day,
                          hour |-> IF call.align = "start" THEN 0
                                   ELSE IF call.align = "end" THEN 23 ELSE f.hour,
                          minute |-> IF call.align = "start" THEN 0
                                     ELSE IF call.align = "end" THEN 59 ELSE f.minute,
                          second |-> IF call.align = "start" THEN 0
                                     ELSE IF call.align = "end" THEN 59 ELSE f.second]
           ELSE ret = Raise(ValueError)

C9_Witness ==
    /\ Called("parser_datetime")
    /\ call.value = <<"2", "0", "2", "4", "-", "0", "1", "-", "0", "5", " ", "1", "3", ":", "4", "5", ":", "2", "2">>
    /\ call.format = DefaultFormat
    /\ call.align = "start"
    /\ ret.kind = "return"
    /\ ret.val.dt = [year |-> 2024, month |-> 1, day |-> 5,
                     hour |-> 0, minute |-> 0, second |-> 0]

\* C10: get_datetime on a present value returns what parser_datetime returns
\* for the value with the caller's format, align and aware when that parses;
\* when it does not, get_datetime returns the supplied default if
\* raise_on_value_error is false and raises if it is true.
C10_DatetimeDelegates ==
    (Called("get_datetime") /\ Present)
        => LET parsed == parser_datetime(Raw, call.format, call.align, call.aware)
           IN  IF parsed.kind = "return" THEN ret = parsed
               ELSE IF call.raise_on_value_error THEN ret = Raise(ValueError)
               ELSE ret = Return(call.default)

C10_Witness ==
    /\ Called("get_datetime")
    /\ Present
    /\ ~Strptime(Raw, call.format).ok
    /\ ~call.raise_on_value_error
    /\ call.default = DefaultObj
    /\ ret = Return(DefaultObj)

====
